---- MODULE Spec2Model ----
(***************************************************************************)
(* Model of netdev_config_from_file.py: the DeviceConfigure class          *)
(* (hostname extraction, per-device configuration task, log writer) and    *)
(* main() (fan-out of one task per inventory entry, join, log writing).    *)
(*                                                                         *)
(* Texts are sequences of lexemes: a lexeme is a whitespace character      *)
(* (SP, NL) or a run of characters that the program only ever treats as a  *)
(* unit (a family marker, the literal "uptime", a host name, ...).         *)
(***************************************************************************)
EXTENDS Integers, Sequences, FiniteSets, TLC

\* ------------------------------------------------------------------ bounds
MaxDevices == 2
MaxLines == 3
MaxAdvance == 1

\* ------------------------------------------------------------------ lexemes
SP == " "
NL == "\n"

IsSpace(c) == c \in {SP, NL}

None == <<"None">>

\* line 56-63
version_list ==
  << "IOS XE", "NX-OS", "C2960X-UNIVERSALK9-M", "vios_l2-ADVENTERPRISEK9-M",
     "VIOS-ADVENTERPRISEK9-M", "Junos" >>

\* str.find(marker): 0-based index of the first occurrence, -1 when absent
RECURSIVE FindFrom(_, _, _)
FindFrom(text, marker, i) ==
  IF i > Len(text) THEN -1
  ELSE IF text[i] = marker THEN i - 1
  ELSE FindFrom(text, marker, i + 1)

Find(text, marker) == FindFrom(text, marker, 1)

\* the for loop of lines 65-69 from element i on: the value of `version` when
\* the loop ends. It breaks at the first marker found at an index above 0;
\* when none is, the loop variable keeps the last element of the list.
RECURSIVE LoopFrom(_, _)
LoopFrom(sh_ver, i) ==
  IF Find(sh_ver, version_list[i]) > 0 THEN version_list[i]
  ELSE IF i = Len(version_list) THEN version_list[i]
  ELSE LoopFrom(sh_ver, i + 1)

LoopVersion(sh_ver) == LoopFrom(sh_ver, 1)

\* re.M: ^ matches at the start of the text and after every newline
LineStart(s, i) == i = 1 \/ (i > 1 /\ i <= Len(s) + 1 /\ s[i-1] = NL)

\* last index of the maximal run of non-space lexemes starting at i (\S+)
RECURSIVE WordEnd(_, _)
WordEnd(s, i) ==
  IF i < Len(s) /\ ~IsSpace(s[i+1]) THEN WordEnd(s, i + 1) ELSE i

\* last index of the maximal run of whitespace starting at i (\s+)
RECURSIVE SpaceEnd(_, _)
SpaceEnd(s, i) ==
  IF i < Len(s) /\ IsSpace(s[i+1]) THEN SpaceEnd(s, i + 1) ELSE i

StartsWord(s, i) == i >= 1 /\ i <= Len(s) /\ ~IsSpace(s[i])
StartsSpace(s, i) == i >= 1 /\ i <= Len(s) /\ IsSpace(s[i])

\* r"(^\s+)+(Device name:)\s(?P<hostname>\S+)" matched at start position i:
\* whitespace from a line start up to "Device name:", one whitespace, a word
NxosMatchAt(s, i) ==
  /\ LineStart(s, i)
  /\ StartsSpace(s, i)
  /\ SpaceEnd(s, i) + 1 <= Len(s)
  /\ s[SpaceEnd(s, i) + 1] = "Device name:"
  /\ StartsSpace(s, SpaceEnd(s, i) + 2)
  /\ StartsWord(s, SpaceEnd(s, i) + 3)

NxosGroup(s, i) ==
  SubSeq(s, SpaceEnd(s, i) + 3, WordEnd(s, SpaceEnd(s, i) + 3))

\* r"(^Hostname:\s+)(?P<hostname>\S+)" matched at start position i
JunosMatchAt(s, i) ==
  /\ LineStart(s, i)
  /\ i <= Len(s) /\ s[i] = "Hostname:"
  /\ StartsSpace(s, i + 1)
  /\ StartsWord(s, SpaceEnd(s, i + 1) + 1)

JunosGroup(s, i) ==
  SubSeq(s, SpaceEnd(s, i + 1) + 1, WordEnd(s, SpaceEnd(s, i + 1) + 1))

\* r"(?P<hostname>^\S+)\s+uptime" matched at start position i
IosMatchAt(s, i) ==
  /\ LineStart(s, i)
  /\ StartsWord(s, i)
  /\ StartsSpace(s, WordEnd(s, i) + 1)
  /\ SpaceEnd(s, WordEnd(s, i) + 1) + 1 <= Len(s)
  /\ s[SpaceEnd(s, WordEnd(s, i) + 1) + 1] = "uptime"

IosGroup(s, i) == SubSeq(s, i, WordEnd(s, i))

\* lines 71-80: the pattern chosen for the value of `version`
PatternOf(version) ==
  IF version = "NX-OS" THEN "nxos"
  ELSE IF version = "Junos" THEN "junos"
  ELSE "ios"

software_ver_check(sh_ver) == PatternOf(LoopVersion(sh_ver))

MatchAt(pattern, s, i) ==
  CASE pattern = "nxos" -> NxosMatchAt(s, i)
    [] pattern = "junos" -> JunosMatchAt(s, i)
    [] OTHER -> IosMatchAt(s, i)

GroupAt(pattern, s, i) ==
  CASE pattern = "nxos" -> NxosGroup(s, i)
    [] pattern = "junos" -> JunosGroup(s, i)
    [] OTHER -> IosGroup(s, i)

\* regexp.search(sh_ver): the group "hostname" of the leftmost match from
\* position i on; None when there is no match
RECURSIVE SearchFrom(_, _, _)
SearchFrom(pattern, s, i) ==
  IF i > Len(s) THEN None
  ELSE IF MatchAt(pattern, s, i) THEN GroupAt(pattern, s, i)
  ELSE SearchFrom(pattern, s, i + 1)

Search(pattern, s) == SearchFrom(pattern, s, 1)

\* lines 48-52: the dict returned, or a raise (search() gave None, and
\* None.groupdict() is an AttributeError)
extract_hostname(sh_ver) ==
  IF Search(software_ver_check(sh_ver), sh_ver) = None
  THEN [raised |-> TRUE, fields |-> <<>>]
  ELSE [raised |-> FALSE,
        fields |-> [hostname |-> Search(software_ver_check(sh_ver), sh_ver)]]

\* str.lower() on a lexeme
LowerLexeme(c) ==
  CASE c = "R1" -> "r1"
    [] c = "R2" -> "r2"
    [] c = "N7K" -> "n7k"
    [] c = "Kernel" -> "kernel"
    [] c = "Cisco" -> "cisco"
    [] c = "IOS" -> "ios"
    [] c = "IOS XE" -> "ios xe"
    [] c = "NX-OS" -> "nx-os"
    [] c = "C2960X-UNIVERSALK9-M" -> "c2960x-universalk9-m"
    [] c = "vios_l2-ADVENTERPRISEK9-M" -> "vios_l2-adventerprisek9-m"
    [] c = "VIOS-ADVENTERPRISEK9-M" -> "vios-adventerprisek9-m"
    [] c = "Junos" -> "junos"
    [] c = "Hostname:" -> "hostname:"
    [] c = "Device name:" -> "device name:"
    [] c = "Model:" -> "model:"
    [] c = "Software" -> "software"
    [] OTHER -> c

Lower(w) == [i \in 1..Len(w) |-> LowerLexeme(w[i])]

\* ------------------------------------------------------------ input texts
RECURSIVE JoinLines(_)
JoinLines(ls) ==
  IF Len(ls) = 0 THEN <<>>
  ELSE IF Len(ls) = 1 THEN ls[1]
  ELSE ls[1] \o <<NL>> \o JoinLines(Tail(ls))

Markers == {version_list[i] : i \in 1..Len(version_list)}

BannerLines ==
  {<<"Cisco", SP, m>> : m \in Markers}
    \cup {<<m, SP, "Software">> : m \in Markers}
    \cup { <<"R1", SP, "uptime">>,
           <<SP, SP, "Device name:", SP, "N7K">>,
           <<"Device name:", SP, "N7K">>,
           <<"Hostname:", SP, "mx1">>,
           <<>> }

\* the "show version" answers the extractor is exercised on
VersionTexts ==
  {JoinLines(ls) : ls \in UNION {[1..n -> BannerLines] : n \in 1..MaxLines}}

IosBanner == <<"Cisco", SP, "IOS XE", NL, "R1", SP, "uptime">>
NxosBanner ==
  <<"Cisco", SP, "NX-OS", NL, SP, SP, "Device name:", SP, "N7K", NL,
    "Kernel", SP, "uptime">>
ClassicIosBanner == <<"Cisco", SP, "IOS", NL, "R2", SP, "uptime">>
UnknownBanner == <<"Hostname:", SP, "fw1", NL, "Model:", SP, "srx">>

\* the answers a device gives to "show version" in a run
DeviceTexts == {IosBanner, NxosBanner, ClassicIosBanner, UnknownBanner}

\* the answer a device gives to a configuration push
PushOutputs == {<<"OK">>}

Addresses == {"10.0.0.1", "10.0.0.2"}

\* the inventories of up to MaxDevices entries, repeated addresses included;
\* addresses are interchangeable, so the first entry is fixed
Inventories ==
  {inv \in UNION {[1..n -> Addresses] : n \in 0..MaxDevices} :
     inv # <<>> => inv[1] = "10.0.0.1"}

\* ------------------------------------------------------------------ clock
DaysInMonth(y, m) ==
  IF m = 2 THEN (IF y % 4 = 0 /\ (y % 100 # 0 \/ y % 400 = 0) THEN 29 ELSE 28)
  ELSE IF m \in {4, 6, 9, 11} THEN 30 ELSE 31

NextSecond(t) ==
  IF t.second < 59 THEN [t EXCEPT !.second = @ + 1]
  ELSE IF t.minute < 59 THEN [t EXCEPT !.second = 0, !.minute = @ + 1]
  ELSE IF t.hour < 23 THEN [t EXCEPT !.second = 0, !.minute = 0, !.hour = @ + 1]
  ELSE IF t.day < DaysInMonth(t.year, t.month)
    THEN [t EXCEPT !.second = 0, !.minute = 0, !.hour = 0, !.day = @ + 1]
  ELSE IF t.month < 12
    THEN [t EXCEPT !.second = 0, !.minute = 0, !.hour = 0, !.day = 1,
                   !.month = @ + 1]
  ELSE [t EXCEPT !.second = 0, !.minute = 0, !.hour = 0, !.day = 1,
                 !.month = 1, !.year = @ + 1]

RECURSIVE Advance(_, _)
Advance(t, k) == IF k = 0 THEN t ELSE Advance(NextSecond(t), k - 1)

StartTime ==
  [year |-> 2024, month |-> 1, day |-> 9, hour |-> 23, minute |-> 59,
   second |-> 59]

\* ------------------------------------------------------- number formatting
DigitChars == <<"0", "1", "2", "3", "4", "5", "6", "7", "8", "9">>

\* "%i" % n for n >= 0
RECURSIVE FmtI(_)
FmtI(n) ==
  IF n < 10 THEN <<DigitChars[n + 1]>>
  ELSE FmtI(n \div 10) \o <<DigitChars[(n % 10) + 1]>>

\* "%.2i" % n: at least two digits, zero padded
Fmt2(n) == IF Len(FmtI(n)) < 2 THEN <<"0">> \o FmtI(n) ELSE FmtI(n)

SepLen == 80
Separator == [i \in 1..SepLen |-> "="]

\* ------------------------------------------------------------------ state
VARIABLES
  GLOBAL_DEVICE_PARAMS, \* the process-wide credential template
  ip_list,              \* main: the inventory, a sequence of addresses
  mainPc,               \* main: "gather", "saving", "done" or "crashed"
  saveIdx,              \* main: index in tasks of the next result to save
  pc,                   \* per task: position of the coroutine
  hung,                 \* per task: its device stopped answering
  session,              \* per task: "none", "held" or "released"
  device_params,        \* per task: the task's connection parameters
  sh_ver,               \* per task: the answer to "show version"
  parsed_values,        \* per task: dict filled by extract_hostname
  config_file,          \* per task: the file pushed
  push_reply,           \* per task: the value awaited at line 148
  commands_output,      \* per task: all_commands_output
  body,                 \* per task: how the async-with body ended
  result,               \* per task: the dict the coroutine returned
  failed,               \* per task: the coroutine ended with an exception
  acquires,             \* per task: session acquisitions started
  identifies,           \* per task: "show version" commands sent
  pushes,               \* per task: configuration pushes sent
  releases,             \* per task: session releases started
  returns,              \* per task: times the coroutine returned
  save_log,             \* task indices save_output was called for, in order
  files,                \* file name -> sequence of the texts written to it
  now,                  \* the wall clock at its last reading
  openHandles,          \* file objects opened and not closed
  ex_text,              \* extractor exercise: the text
  ex_version,           \* extractor exercise: `version` after the loop
  ex_out                \* extractor exercise: what extract_hostname gave

taskVars ==
  << pc, hung, session, device_params, sh_ver, parsed_values, config_file,
     push_reply, commands_output, body, result, failed, acquires, identifies, pushes,
     releases, returns >>
mainVars == << mainPc, saveIdx, save_log, files, now, openHandles >>
exVars == << ex_text, ex_version, ex_out >>
vars == << GLOBAL_DEVICE_PARAMS, ip_list, taskVars, mainVars, exVars >>

Tasks == 1..Len(ip_list)

EmptyDict == [k \in {} |-> <<>>]
NoText == <<>>
NoResult == [device_hostname |-> None, commands_output |-> <<>>]
NotCalled == [raised |-> FALSE, fields |-> EmptyDict]

\* lines 15-19
CredentialTemplate ==
  [device_type |-> "cisco_ios", username |-> "USER_NAME",
   password |-> "PASSWORD"]

\* lines 126-127: a copy of the template with the host added
BuildParams(template, ip_address) ==
  [k \in DOMAIN template \cup {"host"} |->
     IF k = "host" THEN ip_address ELSE template[k]]

\* the template when the task writes its host into the template itself
TemplateShared(template, ip_address) == BuildParams(template, ip_address)

\* line 126: the task works on .copy(), so the write of line 127 does not
\* reach the template
TemplateAfterCopy(template, ip_address) == template

\* lines 161-166: the dict returned by the except branch
FailureResult(ip_address) ==
  [device_hostname |-> <<ip_address>>,
   commands_output |->
     <<"Unable to login to device ", ip_address, NL, NL>> \o Separator
       \o <<NL>>]

\* the file name without .lower()
ConfigFileNameAsIs(fields) == <<"./">> \o fields.hostname \o <<".conf">>

\* line 145
ConfigFileName(fields) == Lower(<<"./">> \o fields.hostname \o <<".conf">>)

\* the transcript headed by the text line 139 prints
AllCommandsOutputPrinted(fields, pushed) ==
  <<"Deploying configs on ">> \o fields.hostname \o <<NL>> \o pushed
    \o <<NL>> \o <<NL>> \o Separator \o <<NL>>

\* lines 141-151: "\n".join([header, push output, "\n" + "=" * 80 + "\n"])
AllCommandsOutput(fields, pushed) ==
  <<"Configs deployed to ">> \o fields.hostname \o <<NL>> \o pushed
    \o <<NL>> \o <<NL>> \o Separator \o <<NL>>

\* the result labelled with the lowercased name used for the config file
SuccessResultLowered(fields, all_commands_output) ==
  [device_hostname |-> Lower(fields.hostname),
   commands_output |-> all_commands_output]

\* lines 153-156
SuccessResult(fields, all_commands_output) ==
  [device_hostname |-> fields.hostname,
   commands_output |-> all_commands_output]

\* lines 97-105
OutputFilename(device_hostname, time_now) ==
  device_hostname \o <<"_">>
    \o Fmt2(time_now.year) \o Fmt2(time_now.month) \o FmtI(time_now.day)
    \o <<"_">>
    \o Fmt2(time_now.hour) \o Fmt2(time_now.minute) \o Fmt2(time_now.second)
    \o <<".log">>

\* open(name, "a") followed by write(): create when absent, else append
AppendToFile(fs, name, text) ==
  IF name \in DOMAIN fs THEN [fs EXCEPT ![name] = Append(@, text)]
  ELSE [n \in DOMAIN fs \cup {name} |->
          IF n = name THEN <<text>> ELSE fs[n]]

\* a join that returns as soon as one task has returned
JoinReadyFirst == \E t \in Tasks : pc[t] = "done"

\* line 182: gather() completes when every task has returned
JoinReady == \A t \in Tasks : pc[t] = "done"

\* line 182: gather() re-raises the exception of a task that raised
JoinRaises == \E t \in Tasks : pc[t] = "escaped"

\* tasks first run in no particular order
MayStartAny(t) == TRUE

\* tasks awaited one after the other instead of being gathered
MayStartSerial(t) == \A u \in Tasks : u < t => pc[u] = "done"

\* line 181: tasks are created, and first run, in inventory order
MayStart(t) == \A u \in Tasks : u < t => pc[u] # "created"

\* ------------------------------------------------------------------- init
TaskInit ==
  /\ pc = [t \in Tasks |-> "created"]
  /\ hung = [t \in Tasks |-> FALSE]
  /\ session = [t \in Tasks |-> "none"]
  /\ device_params = [t \in Tasks |-> EmptyDict]
  /\ sh_ver = [t \in Tasks |-> NoText]
  /\ parsed_values = [t \in Tasks |-> EmptyDict]
  /\ config_file = [t \in Tasks |-> <<>>]
  /\ push_reply = [t \in Tasks |-> <<>>]
  /\ commands_output = [t \in Tasks |-> <<>>]
  /\ body = [t \in Tasks |-> "running"]
  /\ result = [t \in Tasks |-> NoResult]
  /\ failed = [t \in Tasks |-> FALSE]
  /\ acquires = [t \in Tasks |-> 0]
  /\ identifies = [t \in Tasks |-> 0]
  /\ pushes = [t \in Tasks |-> 0]
  /\ releases = [t \in Tasks |-> 0]
  /\ returns = [t \in Tasks |-> 0]

MainInit ==
  /\ mainPc = "gather"
  /\ saveIdx = 1
  /\ save_log = <<>>
  /\ files = EmptyDict
  /\ now = StartTime
  /\ openHandles = 0

Init ==
  /\ GLOBAL_DEVICE_PARAMS = CredentialTemplate
  /\ ip_list \in Inventories
  /\ TaskInit
  /\ MainInit
  /\ ex_text = NoText
  /\ ex_version = ""
  /\ ex_out = NotCalled

\* ------------------------------------------------------------ device task
\* Each action is the code between two suspension points of the coroutine
\* configure_device (lines 110-169); the device's answer is its input.
\* body[t] is "running", "returned" (line 157 was reached) or the exception
\* that ended the async-with body.

\* the narrower handler `except netdev.exceptions.DisconnectError`
CatchesDisconnectOnly(exc) == exc = "DisconnectError"

\* line 160: `except Exception` catches every exception the steps raise
Catches(exc) == TRUE

\* a scope exit that does not release the session
ExitScopeKeeps(sess) == sess

\* line 133: leaving the async-with scope runs __aexit__ on the session
ExitScope(sess) == IF sess = "held" THEN "released" ELSE sess

\* a result assembled by the body that survives a failing release
ReturnValueOfBody(t, exc) ==
  IF body[t] = "returned"
  THEN SuccessResult(parsed_values[t], commands_output[t])
  ELSE FailureResult(ip_list[t])

\* what the coroutine returns: line 157 when nothing raised, else line 169
ReturnValue(t, exc) ==
  IF exc = "none"
  THEN SuccessResult(parsed_values[t], commands_output[t])
  ELSE FailureResult(ip_list[t])

\* the coroutine ends with exception exc ("none": it returns from line 157).
\* A caught exception gives the result of lines 160-169; one that is not
\* caught leaves the coroutine. The frame and its locals are gone; body[t]
\* keeps how the async-with body had ended.
Leave(t, exc) ==
  /\ IF exc = "none" \/ Catches(exc)
     THEN /\ result' = [result EXCEPT ![t] = ReturnValue(t, exc)]
          /\ returns' = [returns EXCEPT ![t] = @ + 1]
          /\ pc' = [pc EXCEPT ![t] = "done"]
     ELSE /\ pc' = [pc EXCEPT ![t] = "escaped"]
          /\ UNCHANGED << result, returns >>
  /\ failed' = [failed EXCEPT ![t] = (exc # "none")]
  /\ device_params' = [device_params EXCEPT ![t] = EmptyDict]
  /\ sh_ver' = [sh_ver EXCEPT ![t] = NoText]
  /\ parsed_values' = [parsed_values EXCEPT ![t] = EmptyDict]
  /\ config_file' = [config_file EXCEPT ![t] = <<>>]
  /\ push_reply' = [push_reply EXCEPT ![t] = <<>>]
  /\ commands_output' = [commands_output EXCEPT ![t] = <<>>]
  /\ UNCHANGED body

\* a task that starts over after it failed
StartRetrying(t) ==
  /\ mainPc = "gather"
  /\ pc[t] = "created" \/ (pc[t] = "done" /\ failed[t])
  /\ MayStart(t)
  /\ device_params' =
       [device_params EXCEPT ![t] = BuildParams(GLOBAL_DEVICE_PARAMS, ip_list[t])]
  /\ parsed_values' = [parsed_values EXCEPT ![t] = EmptyDict]
  /\ acquires' = [acquires EXCEPT ![t] = @ + 1]
  /\ pc' = [pc EXCEPT ![t] = "connecting"]
  /\ GLOBAL_DEVICE_PARAMS' = TemplateAfterCopy(GLOBAL_DEVICE_PARAMS, ip_list[t])
  /\ UNCHANGED << ip_list, mainVars, exVars, hung,
                  session, sh_ver, config_file, push_reply, commands_output, body, result,
                  failed, identifies, pushes, releases, returns >>

\* line 181 / lines 126-133: the task starts, copies the template and
\* begins to open its session
Start(t) ==
  /\ mainPc = "gather"
  /\ pc[t] = "created"
  /\ MayStart(t)
  /\ device_params' =
       [device_params EXCEPT ![t] = BuildParams(GLOBAL_DEVICE_PARAMS, ip_list[t])]
  /\ parsed_values' = [parsed_values EXCEPT ![t] = EmptyDict]
  /\ acquires' = [acquires EXCEPT ![t] = @ + 1]
  /\ pc' = [pc EXCEPT ![t] = "connecting"]
  /\ GLOBAL_DEVICE_PARAMS' = TemplateAfterCopy(GLOBAL_DEVICE_PARAMS, ip_list[t])
  /\ UNCHANGED << ip_list, mainVars, exVars, hung,
                  session, sh_ver, config_file, push_reply, commands_output, body, result,
                  failed, identifies, pushes, releases, returns >>

\* line 133 __aenter__ succeeded; line 136 sends "show version"
ConnectOk(t) ==
  /\ pc[t] = "connecting" /\ ~hung[t]
  /\ session' = [session EXCEPT ![t] = "held"]
  /\ identifies' = [identifies EXCEPT ![t] = @ + 1]
  /\ pc' = [pc EXCEPT ![t] = "identifying"]
  /\ UNCHANGED << GLOBAL_DEVICE_PARAMS, ip_list, mainVars, exVars, hung,
                  device_params, sh_ver, parsed_values, config_file, push_reply,
                  commands_output, body, result, failed, acquires, pushes,
                  releases, returns >>

\* line 133 __aenter__ raised: no session, no __aexit__; lines 160-169
ConnectFail(t) ==
  /\ pc[t] = "connecting" /\ ~hung[t]
  /\ Leave(t, "DisconnectError")
  /\ UNCHANGED << GLOBAL_DEVICE_PARAMS, ip_list, mainVars, exVars, hung,
                  session, acquires, identifies, pushes, releases >>

\* lines 134-148: "show version" answered with text; the hostname is
\* extracted; either the extraction raises and the session is being released,
\* or the config file name is computed and the push is sent
IdentifyOk(t, text) ==
  /\ pc[t] = "identifying" /\ ~hung[t]
  /\ sh_ver' = [sh_ver EXCEPT ![t] = text]
  /\ LET ex == extract_hostname(text)
     IN IF ex.raised
        THEN /\ body' = [body EXCEPT ![t] = "AttributeError"]
             /\ releases' = [releases EXCEPT ![t] = @ + 1]
             /\ pc' = [pc EXCEPT ![t] = "closing"]
             /\ UNCHANGED << parsed_values, config_file, pushes >>
        ELSE /\ parsed_values' = [parsed_values EXCEPT ![t] = ex.fields]
             /\ config_file' = [config_file EXCEPT ![t] = ConfigFileName(ex.fields)]
             /\ pushes' = [pushes EXCEPT ![t] = @ + 1]
             /\ pc' = [pc EXCEPT ![t] = "pushing"]
             /\ UNCHANGED << body, releases >>
  /\ UNCHANGED << GLOBAL_DEVICE_PARAMS, ip_list, mainVars, exVars, hung,
                  session, device_params, push_reply, commands_output, result, failed,
                  acquires, identifies, returns >>

\* line 136 send_command raised: __aexit__ starts releasing the session
IdentifyFail(t) ==
  /\ pc[t] = "identifying" /\ ~hung[t]
  /\ body' = [body EXCEPT ![t] = "TimeoutError"]
  /\ releases' = [releases EXCEPT ![t] = @ + 1]
  /\ pc' = [pc EXCEPT ![t] = "closing"]
  /\ UNCHANGED << GLOBAL_DEVICE_PARAMS, ip_list, mainVars, exVars, hung,
                  session, device_params, sh_ver, parsed_values, config_file, push_reply,
                  commands_output, result, failed, acquires, identifies,
                  pushes, returns >>

\* lines 147-157: the push answered with out; the transcript is assembled
\* and `return result` leaves the async-with body, so __aexit__ starts
PushOk(t, out) ==
  /\ pc[t] = "pushing" /\ ~hung[t]
  /\ push_reply' = [push_reply EXCEPT ![t] = out]
  /\ commands_output' =
       [commands_output EXCEPT ![t] = AllCommandsOutput(parsed_values[t], out)]
  /\ body' = [body EXCEPT ![t] = "returned"]
  /\ releases' = [releases EXCEPT ![t] = @ + 1]
  /\ pc' = [pc EXCEPT ![t] = "closing"]
  /\ UNCHANGED << GLOBAL_DEVICE_PARAMS, ip_list, mainVars, exVars, hung,
                  session, device_params, sh_ver, parsed_values, config_file,
                  result, failed, acquires, identifies, pushes, returns >>

\* line 148 send_config_from_file raised (the file is missing, or the
\* transport failed): __aexit__ starts
PushFail(t) ==
  /\ pc[t] = "pushing" /\ ~hung[t]
  /\ body' = [body EXCEPT ![t] = "FileNotFoundError"]
  /\ releases' = [releases EXCEPT ![t] = @ + 1]
  /\ pc' = [pc EXCEPT ![t] = "closing"]
  /\ UNCHANGED << GLOBAL_DEVICE_PARAMS, ip_list, mainVars, exVars, hung,
                  session, device_params, sh_ver, parsed_values, config_file, push_reply,
                  commands_output, result, failed, acquires, identifies,
                  pushes, returns >>

\* line 133 __aexit__ finished without raising: the body's return value or
\* exception takes effect
ReleaseOk(t) ==
  /\ pc[t] = "closing" /\ ~hung[t]
  /\ session' = [session EXCEPT ![t] = ExitScope(@)]
  /\ Leave(t, IF body[t] = "returned" THEN "none" ELSE body[t])
  /\ UNCHANGED << GLOBAL_DEVICE_PARAMS, ip_list, mainVars, exVars, hung,
                  acquires, identifies, pushes, releases >>

\* line 133 __aexit__ raised: its exception replaces the body's outcome
ReleaseFail(t) ==
  /\ pc[t] = "closing" /\ ~hung[t]
  /\ session' = [session EXCEPT ![t] = ExitScope(@)]
  /\ Leave(t, "DisconnectError")
  /\ UNCHANGED << GLOBAL_DEVICE_PARAMS, ip_list, mainVars, exVars, hung,
                  acquires, identifies, pushes, releases >>

\* the device stops answering while the task awaits it (no timeout exists)
Hang(t) ==
  /\ pc[t] \in {"connecting", "identifying", "pushing", "closing"}
  /\ ~hung[t]
  /\ hung' = [hung EXCEPT ![t] = TRUE]
  /\ UNCHANGED << GLOBAL_DEVICE_PARAMS, ip_list, mainVars, exVars, pc,
                  session, device_params, sh_ver, parsed_values, config_file, push_reply,
                  commands_output, body, result, failed, acquires, identifies,
                  pushes, releases, returns >>

TaskStep(t) ==
  \/ Start(t)
  \/ ConnectOk(t)
  \/ ConnectFail(t)
  \/ \E text \in DeviceTexts : IdentifyOk(t, text)
  \/ IdentifyFail(t)
  \/ \E out \in PushOutputs : PushOk(t, out)
  \/ PushFail(t)
  \/ ReleaseOk(t)
  \/ ReleaseFail(t)

\* ------------------------------------------------------------------- main
\* line 182: run_until_complete(gather(*tasks)) returns
Join ==
  /\ mainPc = "gather"
  /\ JoinReady \/ JoinRaises
  /\ mainPc' = IF JoinRaises THEN "crashed" ELSE "saving"
  /\ UNCHANGED << GLOBAL_DEVICE_PARAMS, ip_list, taskVars, exVars, saveIdx,
                  save_log, files, now, openHandles >>

\* a loop that stops one element early
LoopExhaustedEarly == saveIdx >= Len(ip_list)

\* the for loop of line 184 has no element left
LoopExhausted == saveIdx > Len(ip_list)

\* lines 184-187 with lines 95-108: one iteration of the for loop. The clock
\* is read (k seconds after its last reading), the file is opened in append
\* mode and written; `output_file.close` is an attribute access, not a call,
\* so the file object stays open unless the runtime finalises it (closed).
SaveOutput(k, closed) ==
  /\ mainPc = "saving"
  /\ ~LoopExhausted
  /\ LET time_now == Advance(now, k)
         r == result[saveIdx]
     IN /\ now' = time_now
        /\ files' = AppendToFile(files,
                                 OutputFilename(r.device_hostname, time_now),
                                 r.commands_output)
  /\ openHandles' = IF closed THEN openHandles ELSE openHandles + 1
  /\ save_log' = Append(save_log, saveIdx)
  /\ saveIdx' = saveIdx + 1
  /\ UNCHANGED << GLOBAL_DEVICE_PARAMS, ip_list, taskVars, exVars, mainPc >>

\* a writer failure that is swallowed: the loop goes on to the next result
SaveRaiseSkips ==
  /\ mainPc = "saving"
  /\ ~LoopExhausted
  /\ save_log' = Append(save_log, saveIdx)
  /\ saveIdx' = saveIdx + 1
  /\ UNCHANGED << GLOBAL_DEVICE_PARAMS, ip_list, taskVars, exVars, mainPc,
                  files, now, openHandles >>

\* line 106: open() raised; nothing catches it and main() ends
SaveRaise ==
  /\ mainPc = "saving"
  /\ ~LoopExhausted
  /\ save_log' = Append(save_log, saveIdx)
  /\ mainPc' = "crashed"
  /\ UNCHANGED << GLOBAL_DEVICE_PARAMS, ip_list, taskVars, exVars, saveIdx,
                  files, now, openHandles >>

\* lines 189-191: the for loop is exhausted, main() returns
Finish ==
  /\ mainPc = "saving"
  /\ LoopExhausted
  /\ mainPc' = "done"
  /\ UNCHANGED << GLOBAL_DEVICE_PARAMS, ip_list, taskVars, exVars, saveIdx,
                  save_log, files, now, openHandles >>

Next ==
  \/ \E t \in Tasks : TaskStep(t)
  \/ \E t \in Tasks : Hang(t)
  \/ Join
  \/ \E k \in 0..MaxAdvance, closed \in BOOLEAN : SaveOutput(k, closed)
  \/ SaveRaise
  \/ Finish

Spec == Init /\ [][Next]_vars

\* ------------------------------------------ runs in which awaits do end
\* The progress of a task does not depend on what its device answers, so
\* progress is checked on runs with one address, one answer that the
\* extractor accepts, one it rejects, and one answer to the push.
LiveTexts == {IosBanner, ClassicIosBanner}
LiveOutputs == {<<"OK">>}
LiveInventories == UNION {[1..n -> {"10.0.0.1"}] : n \in 0..MaxDevices}

LiveInit ==
  /\ GLOBAL_DEVICE_PARAMS = CredentialTemplate
  /\ ip_list \in LiveInventories
  /\ TaskInit
  /\ MainInit
  /\ ex_text = NoText
  /\ ex_version = ""
  /\ ex_out = NotCalled

\* an await of task t ends: the steps of a task other than IdentifyOk. In
\* every state it is enabled exactly when some step of the task is
\* (IdentifyFail and IdentifyOk have the same guard).
AwaitEnds(t) ==
  \/ Start(t)
  \/ ConnectOk(t)
  \/ ConnectFail(t)
  \/ IdentifyFail(t)
  \/ \E out \in LiveOutputs : PushOk(t, out)
  \/ PushFail(t)
  \/ ReleaseOk(t)
  \/ ReleaseFail(t)

LiveNext ==
  \/ \E t \in Tasks : AwaitEnds(t)
  \/ \E t \in Tasks, text \in LiveTexts : IdentifyOk(t, text)
  \/ \E t \in Tasks : Hang(t)
  \/ Join
  \/ \E k \in 0..MaxAdvance, closed \in BOOLEAN : SaveOutput(k, closed)
  \/ SaveRaise
  \/ Finish

\* no task whose device has not stopped answering waits forever, and the
\* event loop and main() keep running. A task takes finitely many steps, so
\* weak fairness of AwaitEnds(t) allows the same behaviours as weak fairness
\* of all the steps of task t.
FairSpec ==
  /\ LiveInit
  /\ [][LiveNext]_vars
  /\ \A n \in 1..MaxDevices : WF_vars(n \in Tasks /\ AwaitEnds(n))
  /\ WF_vars(Join)
  /\ WF_vars(\E k \in 0..MaxAdvance, closed \in BOOLEAN : SaveOutput(k, closed))
  /\ WF_vars(Finish)

\* --------------------------------------------------- extractor on its own
\* extract_hostname applied to one text
ExtractCall ==
  /\ ex_out = NotCalled
  /\ ex_text # NoText
  /\ ex_version' = LoopVersion(ex_text)
  /\ ex_out' = extract_hostname(ex_text)
  /\ UNCHANGED << GLOBAL_DEVICE_PARAMS, ip_list, taskVars, mainVars, ex_text >>

InitExtract ==
  /\ GLOBAL_DEVICE_PARAMS = CredentialTemplate
  /\ ip_list = <<>>
  /\ TaskInit
  /\ MainInit
  /\ ex_text \in VersionTexts \ {NoText}
  /\ ex_version = ""
  /\ ex_out = NotCalled

NextExtract == ExtractCall

SpecExtract == InitExtract /\ [][NextExtract]_vars

\* ============================================================== properties
SavedCount(t) == Cardinality({i \in 1..Len(save_log) : save_log[i] = t})

Contains(s, sub) ==
  \E i \in 0..(Len(s) - Len(sub)) : SubSeq(s, i + 1, i + Len(sub)) = sub

EightyEquals == [i \in 1..80 |-> "="]

Done(t) == pc[t] = "done"

\* C1: every inventory entry gives exactly one TaskResult, whatever the
\* outcome of its device's steps, and a run that reaches its end has called
\* save_output exactly once for each of the N results.
C1_OneResultOneSave ==
  /\ \A t \in Tasks :
       /\ returns[t] <= 1
       /\ (returns[t] = 1) = (result[t] # NoResult)
       /\ Done(t) = (returns[t] = 1)
       /\ SavedCount(t) <= 1
       /\ SavedCount(t) = 1 => returns[t] = 1
  /\ mainPc = "done" =>
       /\ Len(save_log) = Len(ip_list)
       /\ \A t \in Tasks : returns[t] = 1 /\ SavedCount(t) = 1

C1_Witness ==
  /\ mainPc = "done"
  /\ Len(ip_list) >= 2
  /\ \E t \in Tasks : failed[t] /\ identifies[t] = 0
  /\ \E t \in Tasks : ~failed[t]

\* C2: configure_device never raises past its boundary; whichever step
\* failed, the result is labelled with the raw address and its transcript is
\* "Unable to login to device <address>" followed by the 80 "=" separator.
C2_FailureResult ==
  \A t \in Tasks :
    /\ pc[t] # "escaped"
    /\ (Done(t) /\ failed[t]) =>
         /\ result[t].device_hostname = <<ip_list[t]>>
         /\ result[t].commands_output =
              <<"Unable to login to device ", ip_list[t], NL, NL>>
                \o EightyEquals \o <<NL>>

C2_Witness ==
  \E t \in Tasks :
    /\ Done(t) /\ failed[t] /\ pushes[t] = 1
    /\ result[t].device_hostname = <<ip_list[t]>>

\* C3: a session that was acquired is released before the task returns, on
\* every exit path; when the acquisition fails no session is held and none is
\* released; once all tasks have returned no session is open.
C3_SessionReleased ==
  /\ \A t \in Tasks :
       /\ releases[t] <= 1
       /\ session[t] = "held" => pc[t] \in {"identifying", "pushing", "closing"}
       /\ Done(t) =>
            /\ session[t] # "held"
            /\ identifies[t] >= 1 => (session[t] = "released" /\ releases[t] = 1)
            /\ identifies[t] = 0 => (session[t] = "none" /\ releases[t] = 0)
  /\ JoinReady => \A t \in Tasks : session[t] # "held"

C3_Witness ==
  \E t, u \in Tasks :
    /\ Done(t) /\ failed[t] /\ pushes[t] = 1 /\ session[t] = "released"
    /\ Done(u) /\ failed[u] /\ acquires[u] = 1 /\ session[u] = "none"

\* C4: a version text with no family marker at an index greater than 0 makes
\* the extractor fail; no hostname is extracted from it and no config push is
\* sent to its device.
C4_UnrecognizedFamilyFails ==
  \A t \in Tasks :
    (/\ sh_ver[t] # NoText
     /\ \A i \in 1..Len(version_list) : Find(sh_ver[t], version_list[i]) <= 0)
    => (parsed_values[t] = EmptyDict /\ pushes[t] = 0)

\* C5: no step of a task changes another task, and every task whose device
\* keeps answering completes, whichever other tasks failed or hang.
C5_FailureIsolation ==
  /\ [][\A t, u \in Tasks :
          (t # u /\ pc'[u] # pc[u]) =>
            /\ pc'[t] = pc[t] /\ result'[t] = result[t]
            /\ session'[t] = session[t] /\ hung'[t] = hung[t]]_vars
  /\ \A n \in 1..MaxDevices :
       <>(n \notin Tasks \/ hung[n] \/ pc[n] = "done")

C5_Witness ==
  \E t, u \in Tasks :
    /\ t < u
    /\ hung[t]
    /\ Done(u) /\ ~failed[u]

\* C6: save_output is not called before every task has returned; while a
\* device hangs, its task is not finished, main() stays in the join and no
\* result is written.
C6_JoinBarrier ==
  /\ (mainPc # "gather" \/ save_log # <<>> \/ files # EmptyDict)
       => \A t \in Tasks : Done(t)
  /\ \A t \in Tasks :
       hung[t] => (~Done(t) /\ mainPc = "gather" /\ save_log = <<>>
                   /\ files = EmptyDict)

C6_Witness ==
  \E t, u \in Tasks :
    /\ hung[t] /\ pc[t] = "pushing"
    /\ Done(u) /\ failed[u]
    /\ files = EmptyDict

\* C7: a completed run has written exactly N distinct log files.
C7_NDistinctFiles ==
  mainPc = "done" => Cardinality(DOMAIN files) = Len(ip_list)

\* the tokens of the lines of the form "<token> uptime" in a text
UptimeTokens(text) ==
  {IosGroup(text, i) : i \in {j \in 1..Len(text) : IosMatchAt(text, j)}}

RECURSIVE FirstLine(_)
FirstLine(s) ==
  IF s = <<>> \/ Head(s) = NL THEN <<>> ELSE <<Head(s)>> \o FirstLine(Tail(s))

\* task t has opened its session, got an answer with a line "<tok> uptime"
\* and had its push of "<lowercased tok>.conf" answered
PushAnswered(t, tok) ==
  /\ pc[t] = "closing"
  /\ body[t] = "returned"
  /\ tok \in UptimeTokens(sh_ver[t])
  /\ config_file[t] = <<"./">> \o Lower(tok) \o <<".conf">>

\* the result of task t is labelled tok and its transcript has a header
\* naming tok, the answer to the push and a separator of 80 "="
SuccessLabelled(res, tok, reply) ==
  /\ res.device_hostname = tok
  /\ Contains(FirstLine(res.commands_output), tok)
  /\ Contains(res.commands_output, reply)
  /\ Contains(res.commands_output, EightyEquals)

\* C8 (as stated): a task whose session opens, whose answer has a line
\* "<token> uptime" and whose push of "<lowercased token>.conf" is answered
\* with O returns a result labelled token whose transcript has a header
\* naming token, O and the separator.
C8_SuccessPath ==
  [][\A t \in Tasks :
       (pc[t] = "closing" /\ pc'[t] = "done") =>
         \A tok \in UptimeTokens(sh_ver[t]) :
           PushAnswered(t, tok)
             => SuccessLabelled(result'[t], tok, push_reply[t])]_vars

\* C8 (amended): the same, for a task whose hostname was extracted from that
\* line and whose session release does not raise.
C8_SuccessPathReleased ==
  [][\A t \in Tasks :
       (pc[t] = "closing" /\ pc'[t] = "done" /\ ~failed'[t]) =>
         \A tok \in UptimeTokens(sh_ver[t]) :
           (PushAnswered(t, tok) /\ parsed_values[t].hostname = tok)
             => SuccessLabelled(result'[t], tok, push_reply[t])]_vars

C8_Witness ==
  \E t \in Tasks :
    /\ Done(t) /\ ~failed[t] /\ pushes[t] = 1
    /\ result[t].device_hostname = <<"R1">>
    /\ Contains(result[t].commands_output, <<"OK">>)

SpecificMarkers ==
  {"C2960X-UNIVERSALK9-M", "vios_l2-ADVENTERPRISEK9-M", "VIOS-ADVENTERPRISEK9-M"}
GenericMarkers == {"IOS XE", "NX-OS"}

\* C9: a text with both a specific-platform marker and a generic marker is
\* classified as the specific platform.
C9_SpecificBeforeGeneric ==
  (/\ ex_version # ""
   /\ \E m \in SpecificMarkers : Find(ex_text, m) > 0
   /\ \E m \in GenericMarkers : Find(ex_text, m) > 0)
  => ex_version \in SpecificMarkers

\* the hostname the pattern of a family captures somewhere in the text
FamilyToken(family, text, tok) ==
  \E i \in 1..Len(text) :
    CASE family = "NX-OS" -> NxosMatchAt(text, i) /\ NxosGroup(text, i) = tok
      [] family = "Junos" -> JunosMatchAt(text, i) /\ JunosGroup(text, i) = tok
      [] OTHER -> IosMatchAt(text, i) /\ IosGroup(text, i) = tok

\* the extractor chose the first marker of the list in `positions` and, when
\* it returned, the dict has the one key "hostname" bound to the token of
\* that family's pattern
ChoseFirstOf(positions) ==
  LET f == CHOOSE i \in positions : \A j \in positions : i <= j
  IN /\ ex_version = version_list[f]
     /\ ~ex_out.raised =>
          /\ DOMAIN ex_out.fields = {"hostname"}
          /\ FamilyToken(version_list[f], ex_text, ex_out.fields.hostname)

\* list positions of the markers occurring somewhere after index 0
OccurringAfterStart ==
  {i \in 1..Len(version_list) :
     \E k \in 2..Len(ex_text) : ex_text[k] = version_list[i]}

\* C10: when some marker occurs at an index above 0, the family
\* is that of the first such marker in list order and its pattern alone
\* gives the hostname.
C10_FirstMarkerWins ==
  (ex_version # "" /\ OccurringAfterStart # {})
    => ChoseFirstOf(OccurringAfterStart)

\* the digits of n in exactly w places, zero padded
Digits(n, w) == [i \in 1..w |-> DigitChars[((n \div (10 ^ (w - i))) % 10) + 1]]

\* "<label>_<YYYYMMDD>_<HHMMSS>.log"
StampedName(label, t) ==
  label \o <<"_">> \o Digits(t.year, 4) \o Digits(t.month, 2)
    \o Digits(t.day, 2) \o <<"_">> \o Digits(t.hour, 2)
    \o Digits(t.minute, 2) \o Digits(t.second, 2) \o <<".log">>

\* C11: save_output appends the transcript to the file named
\* "<deviceLabel>_<YYYYMMDD>_<HHMMSS>.log", the date in exactly 8 digits and
\* the time in exactly 6, for every label and every time of day and date.
C11_StampedFilename ==
  [][saveIdx' = saveIdx + 1 =>
       LET r == result[saveIdx]
           name == StampedName(r.device_hostname, now')
       IN /\ name \in DOMAIN files'
          /\ files'[name][Len(files'[name])] = r.commands_output]_vars

\* C12: each inventory entry causes at most one session acquisition, one
\* identify command and one config push, whatever failed; a command is sent
\* on a session only by the task that acquired and holds it, and the step
\* leaves every other task's session and counters alone.
C12_SingleAttemptExclusive ==
  [][\A u \in Tasks :
       /\ acquires'[u] <= 1 /\ identifies'[u] <= 1 /\ pushes'[u] <= 1
       /\ identifies'[u] <= acquires'[u] /\ pushes'[u] <= identifies'[u]
       /\ (\/ session'[u] # session[u] \/ identifies'[u] # identifies[u]
           \/ pushes'[u] # pushes[u] \/ releases'[u] # releases[u])
          => /\ pc'[u] # pc[u]
             /\ acquires[u] = 1
             /\ (pushes'[u] # pushes[u] \/ releases'[u] # releases[u])
                  => session[u] = "held"
             /\ \A t \in Tasks \ {u} :
                  /\ session'[t] = session[t] /\ acquires'[t] = acquires[t]
                  /\ identifies'[t] = identifies[t] /\ pushes'[t] = pushes[t]
                  /\ releases'[t] = releases[t]]_vars

C12_Witness ==
  \E t, u \in Tasks :
    /\ t # u
    /\ Done(t) /\ failed[t] /\ acquires[t] = 1 /\ identifies[t] = 1
    /\ pushes[t] = 0
    /\ session[u] = "held" /\ pc[u] = "pushing"

\* res is the result of a configured device: header h and the hostname, the
\* raw answer to the push, the separator of 80 "="
HeadedTranscript(h, res) ==
  \E out \in PushOutputs :
    res.commands_output =
      <<h>> \o res.device_hostname \o <<NL>> \o out \o <<NL, NL>>
        \o EightyEquals \o <<NL>>

FailureHeaded(res) ==
  SubSeq(res.commands_output, 1, 1) = <<"Unable to login to device ">>

\* every text in a log file is the transcript of a task that was saved
LogsAreTranscripts ==
  \A name \in DOMAIN files : \A i \in 1..Len(files[name]) :
    \E t \in Tasks :
      SavedCount(t) = 1 /\ files[name][i] = result[t].commands_output

\* C13 (as stated): the log of a successfully configured device starts with
\* "Deploying configs on <hostname>" or "Running configs on <hostname>",
\* followed by the raw answer to the push and the 80 "=" separator; the log of
\* a failed device has the failure header instead.
C13_LogHeader ==
  /\ LogsAreTranscripts
  /\ \A t \in Tasks :
       Done(t) =>
         IF failed[t] THEN FailureHeaded(result[t])
         ELSE \/ HeadedTranscript("Deploying configs on ", result[t])
              \/ HeadedTranscript("Running configs on ", result[t])

\* C13 (amended): the same with the header "Configs deployed to <hostname>".
C13_LogHeaderDeployed ==
  /\ LogsAreTranscripts
  /\ \A t \in Tasks :
       Done(t) =>
         IF failed[t] THEN FailureHeaded(result[t])
         ELSE HeadedTranscript("Configs deployed to ", result[t])

C13_Witness ==
  /\ mainPc = "done"
  /\ \E t, u \in Tasks :
       /\ ~failed[t] /\ failed[u]
       /\ \E name \in DOMAIN files :
            /\ files[name] = <<result[t].commands_output>>
            /\ SubSeq(files[name][1], 1, 3) = <<"Configs deployed to ", "N7K", NL>>
       /\ \E name \in DOMAIN files :
            files[name] = <<result[u].commands_output>>

\* C15: the push is sent only by a task whose session is open, whose
\* identify command was answered and from whose answer a hostname was
\* extracted; the file pushed is that hostname lowercased plus ".conf" (in
\* the working directory), and the label of the success result is the
\* hostname as extracted.
C15_PushAfterExtraction ==
  [][\A t \in Tasks :
       /\ pushes'[t] # pushes[t] =>
            /\ acquires[t] = 1 /\ session[t] = "held"
            /\ identifies[t] = 1 /\ sh_ver'[t] # NoText
            /\ DOMAIN parsed_values'[t] = {"hostname"}
            /\ parsed_values'[t] = extract_hostname(sh_ver'[t]).fields
            /\ config_file'[t] =
                 <<"./">> \o Lower(parsed_values'[t].hostname) \o <<".conf">>
       /\ (pc[t] = "closing" /\ pc'[t] = "done" /\ ~failed'[t]) =>
            /\ pushes[t] = 1
            /\ result'[t].device_hostname = parsed_values[t].hostname]_vars

C15_Witness ==
  \E t, u \in Tasks :
    /\ Done(t) /\ ~failed[t] /\ result[t].device_hostname = <<"N7K">>
    /\ pc[u] = "pushing" /\ parsed_values[u].hostname = <<"N7K">>
    /\ config_file[u] = <<"./", "n7k", ".conf">>

\* C16: the credential template is the same in every state of every run and
\* never has a "host" entry; the connection parameters of a task are the
\* template's entries plus a host, which is that task's own address.
C16_TemplateUnchanged ==
  /\ GLOBAL_DEVICE_PARAMS =
       [device_type |-> "cisco_ios", username |-> "USER_NAME",
        password |-> "PASSWORD"]
  /\ "host" \notin DOMAIN GLOBAL_DEVICE_PARAMS
  /\ \A t \in Tasks :
       device_params[t] # EmptyDict =>
         /\ DOMAIN device_params[t] = DOMAIN GLOBAL_DEVICE_PARAMS \cup {"host"}
         /\ device_params[t].host = ip_list[t]
         /\ \A k \in DOMAIN GLOBAL_DEVICE_PARAMS :
              device_params[t][k] = GLOBAL_DEVICE_PARAMS[k]

C16_Witness ==
  \E t, u \in Tasks :
    /\ pc[t] = "pushing" /\ pc[u] = "identifying"
    /\ device_params[t].host = "10.0.0.1"
    /\ device_params[u].host = "10.0.0.2"

\* C17: when save_output has returned, the file handle it opened has been
\* closed: no log file handle is open between invocations or after the run.
C17_HandlesClosed == openHandles = 0

\* tasks are started in inventory order
StartedInOrder ==
  \A t, u \in Tasks : (t < u /\ pc[u] # "created") => pc[t] # "created"

\* whatever the other tasks are doing, a task whose turn to start has come
\* can start, and a started task whose device answers can end its await:
\* any task may be the next to advance and the next to complete
AnyTaskMayAdvance ==
  \A t \in Tasks :
    /\ (pc[t] = "created" /\ \A u \in Tasks : u < t => pc[u] # "created")
         => ENABLED Start(t)
    /\ (pc[t] \in {"connecting", "identifying", "pushing"} /\ ~hung[t])
         => ENABLED AwaitEnds(t)
    /\ (pc[t] = "closing" /\ ~hung[t])
         => ENABLED (ReleaseOk(t) /\ pc'[t] = "done")

\* the result a task returns is made of its own address and locals, and the
\* results of the other tasks are as they were
OwnResultOnly ==
  \A u \in Tasks :
    (pc[u] # "done" /\ pc'[u] = "done") =>
      /\ result'[u] =
           IF failed'[u] THEN FailureResult(ip_list[u])
           ELSE [device_hostname |-> parsed_values[u].hostname,
                 commands_output |-> commands_output[u]]
      /\ \A t \in Tasks \ {u} : result'[t] = result[t]

\* C18: tasks start in inventory order; their completion order is free (in
\* every state any running task may be the next to complete), and the result
\* collected for a task does not depend on which tasks completed before it.
C18_StartOrderFreeCompletion ==
  /\ [](StartedInOrder /\ AnyTaskMayAdvance)
  /\ [][OwnResultOnly]_vars

C18_Witness ==
  /\ Len(ip_list) >= 2
  /\ pc[1] = "connecting"
  /\ pc[2] = "done" /\ ~failed[2]

\* the number of texts written to the files named in names
RECURSIVE WrittenIn(_)
WrittenIn(names) ==
  IF names = {} THEN 0
  ELSE LET n == CHOOSE x \in names : TRUE
       IN Len(files[n]) + WrittenIn(names \ {n})

Written == WrittenIn(DOMAIN files)

\* save_output was called for results 1, 2, ... in this order, and only its
\* last call may have failed, which ended main()
SavedInInventoryOrder ==
  /\ save_log = [i \in 1..Len(save_log) |-> i]
  /\ Len(save_log) <= Len(ip_list)
  /\ saveIdx \in {Len(save_log), Len(save_log) + 1}
  /\ IF mainPc = "crashed"
     THEN Written = Len(save_log) - 1 /\ saveIdx = Len(save_log)
     ELSE Written = Len(save_log) /\ saveIdx = Len(save_log) + 1

\* one call at a time, each for the next result of the task list, made when
\* no task is running; nothing is written once a call has raised
OneSaveAtATime ==
  /\ Len(save_log') <= Len(save_log) + 1
  /\ save_log' # save_log =>
       /\ save_log' = Append(save_log, saveIdx)
       /\ \A t \in Tasks : pc[t] = "done"
       /\ UNCHANGED taskVars
  /\ mainPc = "crashed" => (save_log' = save_log /\ files' = files)

\* C19: save_output is called on the results in inventory order, one call
\* after another, whatever order the tasks completed in; when a call raises,
\* the results of the later inventory entries are never written.
C19_OrderedWrites ==
  /\ []SavedInInventoryOrder
  /\ [][OneSaveAtATime]_vars

C19_Witness ==
  /\ mainPc = "crashed"
  /\ Len(ip_list) = 2
  /\ save_log = <<1>>
  /\ files = EmptyDict
  /\ failed[1] /\ ~failed[2]

\* C20: a task returns a success result only when the session open, the
\* identify command, the extraction, the config push and the session release
\* all completed without error; when the release raises after a successful
\* push, the task returns the failure result labelled with its address.
C20_ReleaseFailureDiscardsSuccess ==
  \A t \in Tasks :
    Done(t) =>
      /\ ~failed[t] =>
           /\ body[t] = "returned"
           /\ acquires[t] = 1 /\ identifies[t] = 1 /\ pushes[t] = 1
           /\ releases[t] = 1 /\ session[t] = "released"
           /\ result[t].device_hostname # <<ip_list[t]>>
           /\ SubSeq(result[t].commands_output, 1, 2) =
                <<"Configs deployed to ">> \o result[t].device_hostname
      /\ (failed[t] /\ body[t] = "returned") =>
           /\ pushes[t] = 1 /\ releases[t] = 1
           /\ result[t].device_hostname = <<ip_list[t]>>
           /\ SubSeq(result[t].commands_output, 1, 2) =
                <<"Unable to login to device ", ip_list[t]>>
      /\ result[t].device_hostname # <<ip_list[t]>> => ~failed[t]

C20_Witness ==
  \E t \in Tasks :
    /\ Done(t) /\ failed[t] /\ body[t] = "returned"
    /\ session[t] = "released"
    /\ result[t] = FailureResult(ip_list[t])

====
